---------------------------- MODULE Spec2Model ----------------------------
(***************************************************************************)
(* A model of src/src/pdfOrganizer.js: the filename heuristics             *)
(* (cleanupText, isValidAuthorName, isLikelyAuthor, parseFilename,         *)
(* formatAuthorName, generateNewFilename) as functions on strings, and     *)
(* the batch (processFiles / processPdfFile under the p-limit limiter) as  *)
(* a state machine over one directory.                                     *)
(*                                                                         *)
(* A JavaScript string is a sequence of UTF-16 code units; here a string   *)
(* is a sequence of code points (all characters used are in the BMP), so   *)
(* the regular expressions' character ranges are ranges of numbers.        *)
(***************************************************************************)
EXTENDS Integers, Sequences, FiniteSets, TLC

\* --------------------------------------------------------------------
\* Characters and string literals

\* The printable ASCII characters but the grave accent: code points 32..95
\* and 97..126 in order.
AsciiLo == " !\"#$%&'()*+,-./0123456789:;<=>?@ABCDEFGHIJKLMNOPQRSTUVWXYZ[\\]^_"

AsciiHi == "abcdefghijklmnopqrstuvwxyz{|}~"

\* The code point of a one-character ASCII string.
Ord(ch) ==
  IF \E i \in 1..Len(AsciiLo) : SubSeq(AsciiLo, i, i) = ch
  THEN 31 + (CHOOSE i \in 1..Len(AsciiLo) : SubSeq(AsciiLo, i, i) = ch)
  ELSE 96 + (CHOOSE i \in 1..Len(AsciiHi) : SubSeq(AsciiHi, i, i) = ch)

\* An ASCII string literal as a sequence of code points.
Str(lit) == [i \in 1..Len(lit) |-> Ord(SubSeq(lit, i, i))]

\* null / undefined where a string is expected; no string holds a negative
\* code point.
Null == << -1 >>

\* !text, text &&, a || b on a string or null: the empty string and
\* null are falsy.
Truthy(text) == text # Null /\ text # << >>

OrElse(a, b) == IF Truthy(a) THEN a ELSE b

SPACE == 32
DASH == 45
COMMA == 44
DOT == 46
UNDERSCORE == 95

\* [A-Z U+0410-U+042F], the class the source writes A-Z and Cyrillic A-YA
IsUpper(c) == c \in 65..90 \/ c \in 1040..1071

\* [a-z U+0430-U+044F]
IsLower(c) == c \in 97..122 \/ c \in 1072..1103

\* the letters: both classes above
IsLetter(c) == IsUpper(c) \/ IsLower(c)

\* \d
IsDigit(c) == c \in 48..57

\* [a-z] under the i flag
IsLatin(c) == c \in 65..90 \/ c \in 97..122

\* \s : WhiteSpace and LineTerminator of ECMAScript
IsSpace(c) ==
  \/ c \in {9, 10, 11, 12, 13, 32, 160, 5760, 8232, 8233, 8239, 8287, 12288, 65279}
  \/ c \in 8192..8202

\* what the dot of a regular expression does not match
IsLineTerminator(c) == c \in {10, 13, 8232, 8233}

\* a letter or \s
IsLetterOrSpace(c) == IsLetter(c) \/ IsSpace(c)

\* a letter, \s, a comma or a dot: the class of the author groups
IsAuthorChar(c) == IsLetter(c) \/ IsSpace(c) \/ c = COMMA \/ c = DOT

\* [<>:"/\|?*]
IsInvalidChar(c) == c \in {60, 62, 58, 34, 47, 92, 124, 63, 42}

\* String.prototype.toLowerCase on one character (Latin, Latin-1 and
\* Cyrillic capitals; every other character used here has no lower case).
LowerChar(c) ==
  IF c \in 65..90 \/ c \in 1040..1071 \/ (c \in 192..222 /\ c # 215) THEN c + 32
  ELSE IF c \in 1024..1039 THEN c + 80
  ELSE c

toLowerCase(s) == [i \in 1..Len(s) |-> LowerChar(s[i])]

\* --------------------------------------------------------------------
\* Generic string helpers. The functions of the source are functions here:
\* a string is a sequence of code points, null included.

String == Seq(Int)

\* The arrays of strings.
Strings == Seq(String)

Min2(a, b) == IF a <= b THEN a ELSE b

Min3(a, b, c) == Min2(a, Min2(b, c))

\* s.slice(i - 1): the suffix that starts at the 1-based index i.
From(s, i) == SubSeq(s, i, Len(s))

\* Every character of s satisfies the class (true of the empty string).
AllIn(s, Class(_)) == \A i \in 1..Len(s) : Class(s[i])

\* Where a scan from index i of a string of length n first finds an index
\* that satisfies At; n + 1 when it finds none.
NextIndex(At(_), i, n) ==
  CHOOSE j \in i..(n + 1) :
     /\ j = n + 1 \/ At(j)
     /\ \A o \in i..(j - 1) : ~At(o)

\* The length of the run of whitespace that starts at index i (0 if none).
WsRun[s \in String, i \in Int] ==
  IF i <= Len(s) /\ IsSpace(s[i]) THEN 1 + WsRun[s, i + 1] ELSE 0

\* The length of the run of whitespace that ends at index i (0 if none).
WsRunBack[s \in String, i \in Int] ==
  IF i >= 1 /\ IsSpace(s[i]) THEN 1 + WsRunBack[s, i - 1] ELSE 0

\* String.prototype.trim
trim[s \in String] ==
  IF WsRun[s, 1] = Len(s) THEN << >>
  ELSE SubSeq(s, WsRun[s, 1] + 1, Len(s) - WsRunBack[s, Len(s)])

startsWith[s \in String, p \in String] ==
  Len(p) <= Len(s) /\ SubSeq(s, 1, Len(p)) = p

endsWith[s \in String, p \in String] ==
  Len(p) <= Len(s) /\ SubSeq(s, Len(s) - Len(p) + 1, Len(s)) = p

\* String.prototype.includes
includes[s \in String, p \in String] ==
  \E i \in 1..(Len(s) - Len(p) + 1) : SubSeq(s, i, i + Len(p) - 1) = p

\* Array.prototype.join
join[parts \in Seq(String), sep \in String] ==
  IF Len(parts) = 0 THEN << >>
  ELSE IF Len(parts) = 1 THEN parts[1]
  ELSE parts[1] \o sep \o join[Tail(parts), sep]

\* The decimal digits of a non-negative integer (a number in a template
\* literal).
Digits[n \in Nat] ==
  IF n < 10 THEN << 48 + n >> ELSE Digits[n \div 10] \o << 48 + (n % 10) >>

\* parseInt of a string of decimal digits.
parseInt[ds \in String] ==
  IF Len(ds) = 0 THEN 0
  ELSE 10 * parseInt[SubSeq(ds, 1, Len(ds) - 1)] + (ds[Len(ds)] - 48)

\* --------------------------------------------------------------------
\* Regular-expression replace and split, as the source uses them

\* The two classes whose runs the source collapses: [_\.]+ and \s+ .
InRunClass(kind, c) ==
  IF kind = "dotsUnderscores" THEN c = UNDERSCORE \/ c = DOT ELSE IsSpace(c)

\* The length of the run of the class that starts at index i (0 if none).
RunLen[kind \in STRING, s \in String, i \in Int] ==
  IF i <= Len(s) /\ InRunClass(kind, s[i]) THEN 1 + RunLen[kind, s, i + 1]
  ELSE 0

\* s.replace(/<class>+/g, repl) from index i on: every maximal run of the
\* class becomes repl.
replaceRuns[kind \in STRING, s \in String, i \in Int, repl \in String] ==
  LET j == NextIndex(LAMBDA q : InRunClass(kind, s[q]), i, Len(s))
  IN  IF j > Len(s) THEN From(s, i)
      ELSE SubSeq(s, i, j - 1) \o repl
             \o replaceRuns[kind, s, j + RunLen[kind, s, j], repl]

\* The length of the match of a separator at index i, 0 when it does not
\* match there:
\*   "dashComma"     /\s*[-,]\s*/
\*   "commaOrSpace"  /\s*[,]\s*|\s+/   (the first alternative is tried first)
\*   "space"         /\s+/
\*   "comma"         /\s*,\s*/
\* The quantifiers are greedy, and no two of the classes overlap, so the
\* match at an index is unique.
SepLen[kind \in STRING, s \in String, i \in Int] ==
  LET w == WsRun[s, i]
      j == i + w
      delim == /\ kind # "space"
               /\ j <= Len(s)
               /\ (s[j] = COMMA \/ (kind = "dashComma" /\ s[j] = DASH))
  IN  IF delim THEN w + 1 + WsRun[s, j + 1]
      ELSE IF kind = "space" \/ kind = "commaOrSpace" THEN w
      ELSE 0

\* String.prototype.split(separator): p is the start of the part being
\* collected; the separator is tried at each index from p on.
splitFrom[kind \in STRING, s \in String, p \in Int] ==
  LET q == NextIndex(LAMBDA j : SepLen[kind, s, j] # 0, p, Len(s))
  IN  IF q > Len(s) THEN << SubSeq(s, p, Len(s)) >>
      ELSE << SubSeq(s, p, q - 1) >> \o splitFrom[kind, s, q + SepLen[kind, s, q]]

split[kind \in STRING, s \in String] == splitFrom[kind, s, 1]

\* /(.)\1{k-1,}/ : some character that is no line terminator stands k times
\* in a row.
HasRepeat[s \in String, k \in Nat] ==
  \E i \in 1..(Len(s) - k + 1) :
     /\ ~IsLineTerminator(s[i])
     /\ \A d \in 1..(k - 1) : s[i + d] = s[i]

\* --------------------------------------------------------------------
\* cleanupText

cleanupText[text \in String] ==
  IF ~Truthy(text) THEN text
  ELSE trim[replaceRuns["space",
                        replaceRuns["dotsUnderscores", text, 1, << SPACE >>],
                        1, << SPACE >>]]

\* --------------------------------------------------------------------
\* levenshteinDistance, row by row: prev[k] is dp[i-1][k-1], cur[k] is
\* dp[i][k-1].

LevFill[prev \in Seq(Int), cur \in Seq(Int), ch \in Int, str2 \in String, j \in Int] ==
  IF j > Len(str2) THEN cur
  ELSE LevFill[prev,
               Append(cur, IF ch = str2[j] THEN prev[j]
                           ELSE 1 + Min3(prev[j + 1], cur[j], prev[j])),
               ch, str2, j + 1]

LevRows[str1 \in String, str2 \in String, i \in Int, prev \in Seq(Int)] ==
  IF i > Len(str1) THEN prev
  ELSE LevRows[str1, str2, i + 1, LevFill[prev, << i >>, str1[i], str2, 1]]

levenshteinDistance[str1 \in String, str2 \in String] ==
  LevRows[str1, str2, 1, [j \in 1..(Len(str2) + 1) |-> j - 1]][Len(str2) + 1]

\* --------------------------------------------------------------------
\* isValidAuthorName

\* text.replace(/[.,\s-]/g, "")
StripPunctuation[text \in String] ==
  SelectSeq(text, LAMBDA c : ~(c = DOT \/ c = COMMA \/ c = DASH \/ IsSpace(c)))

\* /^[a-z]+\d+$/i
usernamePattern[part \in String] ==
  \E k \in 1..(Len(part) - 1) :
     /\ AllIn(SubSeq(part, 1, k), IsLatin)
     /\ AllIn(SubSeq(part, k + 1, Len(part)), IsDigit)

\* The four alternatives of namePattern: a capitalized word; a capital and a
\* dot; a capital; a capitalized word followed by letters and whitespace.
namePattern[part \in String] ==
  \/ /\ Len(part) >= 2
     /\ IsUpper(part[1])
     /\ AllIn(SubSeq(part, 2, Len(part)), IsLower)
  \/ /\ Len(part) = 2
     /\ IsUpper(part[1])
     /\ part[2] = DOT
  \/ /\ Len(part) = 1
     /\ IsUpper(part[1])
  \/ /\ Len(part) >= 2
     /\ IsUpper(part[1])
     /\ IsLower(part[2])
     /\ AllIn(SubSeq(part, 3, Len(part)), IsLetterOrSpace)

\* The nested loops at the end of isValidAuthorName: some pair of parts is
\* equal case-insensitively, or both are shorter than 10 and at distance <= 1.
TooSimilar[parts \in Seq(String)] ==
  \E i \in 1..(Len(parts) - 1) : \E j \in (i + 1)..Len(parts) :
     \/ toLowerCase(parts[i]) = toLowerCase(parts[j])
     \/ /\ Len(parts[i]) < 10
        /\ Len(parts[j]) < 10
        /\ levenshteinDistance[parts[i], parts[j]] <= 1

\* The checks of isValidAuthorName on the text without punctuation.
cleanTextOK[cleanText \in String] ==
  IF HasRepeat[cleanText, 3] THEN FALSE
  ELSE IF Len(cleanText) >= 1
          /\ AllIn(cleanText, LAMBDA c : ~(IsLetter(c) \/ IsDigit(c)))
       THEN FALSE
  ELSE IF ~(\E i \in 1..Len(cleanText) : IsLetter(cleanText[i])) THEN FALSE
  ELSE IF Len(cleanText) < 2 \/ Len(cleanText) > 100 THEN FALSE
  ELSE TRUE

\* The checks of isValidAuthorName on the parts of the text.
partsOK[parts \in Seq(String)] ==
  IF Cardinality({toLowerCase(parts[i]) : i \in 1..Len(parts)}) < Len(parts)
  THEN FALSE
  ELSE IF Len(parts) > 6 THEN FALSE
  ELSE IF \E i \in 1..Len(parts) : usernamePattern[parts[i]] THEN FALSE
  ELSE IF ~(\E i \in 1..Len(parts) : namePattern[parts[i]]) THEN FALSE
  ELSE IF TooSimilar[parts] THEN FALSE
  ELSE TRUE

isValidAuthorName[text \in String] ==
  IF ~Truthy(text) THEN FALSE
  ELSE IF ~cleanTextOK[StripPunctuation[text]] THEN FALSE
  ELSE partsOK[split["dashComma", text]]

\* --------------------------------------------------------------------
\* isLikelyAuthor

\* /^[A-Z..]\.$|^[A-Z..]$/ : a capital, with or without a dot after it
IsInitial(word) ==
  \/ Len(word) = 2 /\ IsUpper(word[1]) /\ word[2] = DOT
  \/ Len(word) = 1 /\ IsUpper(word[1])

\* The test of isLikelyAuthor on a valid name and its words.
likelyByWords[text \in String, words \in Seq(String)] ==
  LET hasInitials == \E i \in 1..Len(words) : IsInitial(words[i])
      hasCommaOrDot == \E i \in 1..Len(text) : text[i] = DOT \/ text[i] = COMMA
      isShortName == /\ Len(words) <= 3
                     /\ \E i \in 1..Len(words) : Len(words[i]) <= 2
  IN  \/ hasInitials
      \/ (hasCommaOrDot /\ isShortName)
      \/ (Len(words) <= 3 /\ hasInitials)

isLikelyAuthor[text \in String] ==
  IF ~isValidAuthorName[text] THEN FALSE
  ELSE likelyByWords[text, split["space", text]]

\* --------------------------------------------------------------------
\* parseFilename

\* The year of a metadata record that has none (null).
NullYear == -1

\* if (year), metadata.year || ... : null and 0 are falsy.
YearTruthy(year) == year # NullYear /\ year # 0

\* A metadata record: { title, author, year }.
Metadata == [title : String, author : String, year : Int]

\* The index of the last dot of s, 0 when it has none.
LastDot[s \in String] ==
  IF \E i \in 1..Len(s) : s[i] = DOT
  THEN CHOOSE i \in 1..Len(s) : s[i] = DOT /\ \A j \in (i + 1)..Len(s) : s[j] # DOT
  ELSE 0

\* path.parse(filename).name of a name without directory: the name up to
\* its last dot; a dot that is the first character starts no extension, and
\* ".." has none.
pathName[filename \in String] ==
  IF LastDot[filename] <= 1 \/ filename = << DOT, DOT >>
  THEN filename
  ELSE SubSeq(filename, 1, LastDot[filename] - 1)

PDF_EXT == Str(".pdf")

\* path.extname(name).toLowerCase() === ".pdf"
IsPdfName[filename \in String] ==
  /\ LastDot[filename] > 1
  /\ toLowerCase(From(filename, LastDot[filename])) = PDF_EXT

publishersToRemove ==
  << Str("Dorling Kindersley"), Str("DK"), Str("McGraw-Hill"),
     Str("McGraw Hill"), Str("O'Reilly"), Str("Packt"), Str("Apress"),
     Str("Manning"), Str("Wiley") >>

\* cleanName.replace(new RegExp("^" + publisher + "\\.?\\s*", "i"), "")
removePublisher[cleanName \in String, publisher \in String] ==
  LET n == Len(publisher)
  IN  IF n <= Len(cleanName)
         /\ toLowerCase(SubSeq(cleanName, 1, n)) = toLowerCase(publisher)
      THEN LET d == IF n + 1 <= Len(cleanName) /\ cleanName[n + 1] = DOT
                    THEN 1 ELSE 0
           IN  From(cleanName, n + d + WsRun[cleanName, n + d + 1] + 1)
      ELSE cleanName

\* publishersToRemove.forEach(...): each prefix is removed in turn.
removePublishers[cleanName \in String, i \in Int] ==
  IF i > Len(publishersToRemove) THEN cleanName
  ELSE removePublishers[removePublisher[cleanName, publishersToRemove[i]], i + 1]

\* cleanName.match(yearPattern), /[\[\(]?(\d{4})[\]\)]?(?:\s*)?$/ : the
\* pattern is anchored at the end and its classes are disjoint, so it is
\* read from the end: whitespace, a closing bracket if one is there, four
\* digits, and the leftmost match takes an opening bracket if one is there.
\* start is the index where the match starts.
yearMatch[s \in String] ==
  LET e == Len(s) - WsRunBack[s, Len(s)]
      close == IF e >= 1 /\ (s[e] = 93 \/ s[e] = 41) THEN 1 ELSE 0
      dEnd == e - close
      dStart == dEnd - 3
      ok == dStart >= 1 /\ AllIn(SubSeq(s, dStart, dEnd), IsDigit)
      open == IF ok /\ dStart >= 2 /\ (s[dStart - 1] = 91 \/ s[dStart - 1] = 40)
              THEN 1 ELSE 0
  IN  [matched |-> ok,
       start |-> dStart - open,
       digits |-> IF ok THEN SubSeq(s, dStart, dEnd) ELSE << >>]

\* const year = yearMatch ? parseInt(yearMatch[1]) : null
extractYear[s \in String] ==
  IF yearMatch[s].matched THEN parseInt[yearMatch[s].digits] ELSE NullYear

\* if (year) cleanName = cleanName.replace(yearPattern, "").trim()
removeYear[s \in String] ==
  IF YearTruthy(extractYear[s]) THEN trim[SubSeq(s, 1, yearMatch[s].start - 1)]
  ELSE s

NoLineTerminator(s) == AllIn(s, LAMBDA c : ~IsLineTerminator(c))

\* An author group at the end of the name: a letter, then between lo and hi
\* characters of the author class.
AuthorGroup[g \in String, lo \in Int, hi \in Int] ==
  /\ Len(g) >= 1 + lo
  /\ Len(g) <= 1 + hi
  /\ IsLetter(g[1])
  /\ AllIn(SubSeq(g, 2, Len(g)), IsAuthorChar)

\* The patterns of parseFilename, in order:
\*   "authorTitle"  /^([L][C]{0,50}?)\s+-\s+(.+?)$/
\*   "titleAuthor"  /^(.+?)\s+-\s+([L][C]{0,50}?)$/
\*   "by"           /^(.+?)\s+by\s+([L][C]+?)$/i
\*   "paren"        /^(.+?)\s+\(([L][C]+?)\)$/
\* with L a letter and C the author class. Whether the first group may be
\* s[1..k]:
firstGroupOK(kind, s, k) ==
  IF kind = "authorTitle"
  THEN k <= 51 /\ IsLetter(s[1]) /\ AllIn(SubSeq(s, 2, k), IsAuthorChar)
  ELSE NoLineTerminator(SubSeq(s, 1, k))

\* The second group of the first two patterns, when the separator's dash is
\* at index j and b whitespace characters follow it. The whitespace after
\* the dash is taken whole, but the (.+?) of the first pattern needs one
\* character, which the greedy \s+ gives back when nothing else is left.
dashSecond[kind \in STRING, s \in String, j \in Int, b \in Int] ==
  IF kind = "authorTitle" /\ j + b = Len(s) /\ b >= 2
  THEN << s[Len(s)] >>
  ELSE From(s, j + 1 + b)

\* The rest of the pattern matched from index i to the end of s: the
\* separator and the second group. The whitespace before the separator is
\* taken whole (what follows it is no whitespace).
restMatch[kind \in STRING, s \in String, i \in Int] ==
  LET a == WsRun[s, i]
      j == i + a
      n == Len(s)
  IN  IF a = 0 THEN [ok |-> FALSE, second |-> << >>]
      ELSE IF kind = "authorTitle" \/ kind = "titleAuthor" THEN
        LET second == dashSecond[kind, s, j, WsRun[s, j + 1]]
        IN  [ok |-> /\ j <= n
                    /\ s[j] = DASH
                    /\ WsRun[s, j + 1] >= 1
                    /\ IF kind = "authorTitle"
                       THEN Len(second) >= 1 /\ NoLineTerminator(second)
                       ELSE AuthorGroup[second, 0, 50],
             second |-> second]
      ELSE IF kind = "by" THEN
        LET second == From(s, j + 2 + WsRun[s, j + 2])
        IN  [ok |-> /\ j + 1 <= n
                    /\ LowerChar(s[j]) = 98
                    /\ LowerChar(s[j + 1]) = 121
                    /\ WsRun[s, j + 2] >= 1
                    /\ AuthorGroup[second, 1, n],
             second |-> second]
      ELSE
        LET second == SubSeq(s, j + 1, n - 1)
        IN  [ok |-> /\ j < n
                    /\ s[j] = 40
                    /\ s[n] = 41
                    /\ AuthorGroup[second, 1, n],
             second |-> second]

\* The first group is lazy: it is the shortest prefix s[1..k] that lets the
\* rest match; 0 when the pattern does not match.
firstGroupEnd[kind \in STRING, s \in String] ==
  LET k == NextIndex(LAMBDA m : firstGroupOK(kind, s, m)
                                  /\ restMatch[kind, s, m + 1].ok,
                     1, Len(s))
  IN  IF k > Len(s) THEN 0 ELSE k

\* The two groups of a match whose first group ends at k.
twoPartsAt[kind \in STRING, s \in String, k \in Int] ==
  IF k = 0 THEN [matched |-> FALSE, first |-> << >>, second |-> << >>]
  ELSE [matched |-> TRUE,
        first |-> SubSeq(s, 1, k),
        second |-> restMatch[kind, s, k + 1].second]

\* cleanName.match(pattern) for the four two-part patterns.
matchTwoParts[kind \in STRING, s \in String] ==
  twoPartsAt[kind, s, firstGroupEnd[kind, s]]

patternKinds == << "authorTitle", "titleAuthor", "by", "paren" >>

\* The first of the four two-part patterns that matches, with the two parts
\* trimmed (firstPart, secondPart); matched is FALSE when none does.
firstTwoPartMatch[s \in String, i \in Int] ==
  IF i > Len(patternKinds)
  THEN [matched |-> FALSE, first |-> << >>, second |-> << >>]
  ELSE IF firstGroupEnd[patternKinds[i], s] # 0
       THEN [matched |-> TRUE,
             first |-> trim[matchTwoParts[patternKinds[i], s].first],
             second |-> trim[matchTwoParts[patternKinds[i], s].second]]
       ELSE firstTwoPartMatch[s, i + 1]

\* The name the patterns are tried on: extension, publisher prefixes and
\* year off.
cleanNameOf[filename \in String] ==
  removeYear[removePublishers[cleanupText[pathName[filename]], 1]]

\* firstPart and secondPart of a filename, when a two-part pattern matches.
twoPartsOf[filename \in String] == firstTwoPartMatch[cleanNameOf[filename], 1]

\* A variant of assignParts that takes the shorter part as the author also
\* when both parts look like an author.
assignPartsShorter(firstPart, secondPart, year) ==
  LET isFirstPartAuthor == isLikelyAuthor[firstPart]
      isSecondPartAuthor == isLikelyAuthor[secondPart]
      useFirstAsAuthor ==
        IF isFirstPartAuthor # isSecondPartAuthor THEN isFirstPartAuthor
        ELSE Len(firstPart) <= Len(secondPart)
  IN  [title |-> IF useFirstAsAuthor THEN secondPart ELSE firstPart,
       author |-> IF useFirstAsAuthor THEN firstPart ELSE secondPart,
       year |-> year]

\* The two parts of a two-part match to a metadata record.
assignParts(firstPart, secondPart, year) ==
  LET isFirstPartAuthor == isLikelyAuthor[firstPart]
      isSecondPartAuthor == isLikelyAuthor[secondPart]
      useFirstAsAuthor == Len(firstPart) <= Len(secondPart)
  IN  IF isFirstPartAuthor \/ isSecondPartAuthor
      THEN IF isFirstPartAuthor
           THEN [title |-> secondPart, author |-> firstPart, year |-> year]
           ELSE [title |-> firstPart, author |-> secondPart, year |-> year]
      ELSE [title |-> IF useFirstAsAuthor THEN secondPart ELSE firstPart,
            author |-> IF useFirstAsAuthor THEN firstPart ELSE secondPart,
            year |-> year]

TwoParts == [matched : BOOLEAN, first : String, second : String]

\* The record parseFilename returns for the name without its year, the year
\* and the outcome of the two-part patterns; the last pattern, /^(.+)$/,
\* takes the whole name as the title.
parseMatched[cleanName \in String, year \in Int, two \in TwoParts] ==
  IF two.matched THEN assignParts(two.first, two.second, year)
  ELSE IF Len(cleanName) >= 1 /\ NoLineTerminator(cleanName)
       THEN [title |-> trim[cleanName], author |-> Null, year |-> year]
  ELSE [title |-> cleanName, author |-> Null, year |-> year]

\* parseFilename from the name without extension and publisher prefix on.
parseNamed[named \in String] ==
  parseMatched[removeYear[named], extractYear[named],
               firstTwoPartMatch[removeYear[named], 1]]

parseFilename[filename \in String] ==
  parseNamed[removePublishers[cleanupText[pathName[filename]], 1]]

\* --------------------------------------------------------------------
\* formatAuthorName

\* /^[A-Z..][a-z..]+$/ : a capitalized word
IsCapitalizedWord(part) ==
  /\ Len(part) >= 2
  /\ IsUpper(part[1])
  /\ AllIn(SubSeq(part, 2, Len(part)), IsLower)

\* part.replace(/\.$/, "") + "."
dotted(part) ==
  IF Len(part) >= 1 /\ part[Len(part)] = DOT THEN part ELSE part \o << DOT >>

\* currentAuthor after the push of a part: a single capital gets its dot.
pushPart(currentAuthor, part) ==
  Append(currentAuthor,
         IF Len(part) = 1 /\ IsUpper(part[1]) THEN part \o << DOT >> ELSE part)

\* authors after the push of a finished name, which is pushed if not empty.
pushAuthor[authors \in Seq(String), authorName \in String] ==
  IF authorName # << >> THEN Append(authors, authorName) ELSE authors

\* The loop that groups the parts into author names: i is the loop index,
\* authors and currentAuthor the two arrays.
groupAuthors[parts \in Strings, i \in Int, authors \in Strings, currentAuthor \in Strings] ==
  IF i > Len(parts) THEN authors
  ELSE IF i = Len(parts) \/ IsCapitalizedWord(parts[i + 1])
       THEN groupAuthors[parts, i + 1,
                         pushAuthor[authors,
                                    trim[join[pushPart(currentAuthor, parts[i]),
                                              << SPACE >>]]],
                         << >>]
       ELSE groupAuthors[parts, i + 1, authors, pushPart(currentAuthor, parts[i])]

\* s.replace(/\s*,\s*/g, ", ")
normalizeCommas[s \in String, i \in Int] ==
  LET j == NextIndex(LAMBDA q : SepLen["comma", s, q] # 0, i, Len(s))
  IN  IF j > Len(s) THEN From(s, i)
      ELSE SubSeq(s, i, j - 1) \o << COMMA, SPACE >>
             \o normalizeCommas[s, j + SepLen["comma", s, j]]

\* What formatAuthorName returns for the grouped authors.
formatAuthors[authors \in Seq(String)] ==
  IF Len(authors) > 1
  THEN trim[normalizeCommas[
              join[[i \in 1..Len(authors) |->
                      IF i < Len(authors) THEN authors[i] \o << COMMA >>
                      ELSE authors[i]],
                   << SPACE >>],
              1]]
  ELSE IF Len(authors) = 1 THEN authors[1]
  ELSE << >>

\* formatAuthorName from the parts of the author on.
formatParts[parts \in Seq(String)] ==
  IF Len(parts) >= 2 /\ \A i \in 1..(Len(parts) - 1) : IsInitial(parts[i])
  THEN join[[i \in 1..Len(parts) |->
               IF i < Len(parts) THEN dotted(parts[i]) ELSE parts[i]],
            << SPACE >>]
  ELSE formatAuthors[groupAuthors[parts, 1, << >>, << >>]]

formatAuthorName[author \in String] ==
  IF ~Truthy(author) THEN author
  ELSE formatParts[split["commaOrSpace", author]]

\* --------------------------------------------------------------------
\* generateNewFilename

\* s.replace(/\s*-\s*$/, "") : a dash that ends the string, with the
\* whitespace around it.
stripTrailingDash[s \in String] ==
  LET e == Len(s) - WsRunBack[s, Len(s)]
  IN  IF e >= 1 /\ s[e] = DASH
      THEN SubSeq(s, 1, e - 1 - WsRunBack[s, e - 1])
      ELSE s

\* s.replace(/^\s*-\s*/, "") : a dash that starts the string.
stripLeadingDash[s \in String] ==
  LET a == WsRun[s, 1]
  IN  IF a + 1 <= Len(s) /\ s[a + 1] = DASH
      THEN From(s, a + 2 + WsRun[s, a + 2])
      ELSE s

\* The length of the match of /\s+-\s+-\s+/ at index i, 0 when none.
DoubleDashLen[s \in String, i \in Int] ==
  LET a == WsRun[s, i]
      b == WsRun[s, i + a + 1]
      c == WsRun[s, i + a + b + 2]
  IN  IF /\ a >= 1
         /\ i + a <= Len(s)
         /\ s[i + a] = DASH
         /\ b >= 1
         /\ i + a + b + 1 <= Len(s)
         /\ s[i + a + b + 1] = DASH
         /\ c >= 1
      THEN a + b + c + 2
      ELSE 0

\* s.replace(/\s+-\s+-\s+/g, " - ")
replaceDoubleDashes[s \in String, i \in Int] ==
  LET j == NextIndex(LAMBDA q : DoubleDashLen[s, q] # 0, i, Len(s))
  IN  IF j > Len(s) THEN From(s, i)
      ELSE SubSeq(s, i, j - 1) \o << SPACE, DASH, SPACE >>
             \o replaceDoubleDashes[s, j + DoubleDashLen[s, j]]

\* newName.replace(/[<>:"/\\|?*]/g, "-")
replaceInvalid[s \in String] ==
  [i \in 1..Len(s) |-> IF IsInvalidChar(s[i]) THEN DASH ELSE s[i]]

\* The three replaces and the trim that follow the assembly of newName.
sanitize[newName \in String] ==
  trim[replaceRuns["space", replaceDoubleDashes[replaceInvalid[newName], 1],
                   1, << SPACE >>]]

\* " [" + year + "]" when the record has a year
yearSuffix[year \in Int] ==
  IF YearTruthy(year) THEN << SPACE, 91 >> \o Digits[year] \o << 93 >>
  ELSE << >>

JROSS == Str("jross")

\* The test of the final check.
IsAnomalous[newName \in String] ==
  \/ includes[newName, << SPACE, DASH, SPACE, DASH, SPACE >>]
  \/ includes[newName, JROSS]
  \/ HasRepeat[newName, 4]

\* What the final check returns for the sanitized name.
finalCheck[newName \in String, title \in String, year \in Int] ==
  IF IsAnomalous[newName] THEN title \o yearSuffix[year] ELSE newName

\* The title as generateNewFilename cleans it.
cleanTitle[title \in String] ==
  stripLeadingDash[stripTrailingDash[cleanupText[title]]]

\* " - " + author for the formatted author, when it is not empty and no dash
\* meets a dash.
authorPart[newName \in String, author \in String] ==
  IF Truthy(author)
     /\ ~endsWith[newName, << DASH >>]
     /\ ~startsWith[author, << DASH >>]
  THEN << SPACE, DASH, SPACE >> \o author
  ELSE << >>

\* What the cleaned author adds to newName: nothing unless it is valid.
authorSuffix[newName \in String, author \in String] ==
  IF Truthy(author) /\ isValidAuthorName[author]
  THEN authorPart[newName,
                  stripLeadingDash[stripTrailingDash[formatAuthorName[author]]]]
  ELSE << >>

\* generateNewFilename from the cleaned title on.
nameFor[title \in String, author \in String, year \in Int] ==
  IF ~Truthy(title) THEN Null
  ELSE finalCheck[sanitize[title \o authorSuffix[title, author] \o yearSuffix[year]],
                  title, year] \o PDF_EXT

generateNewFilename[metadata \in Metadata] ==
  IF ~Truthy(metadata.title) THEN Null
  ELSE nameFor[cleanTitle[metadata.title], cleanupText[metadata.author],
               metadata.year]

\* --------------------------------------------------------------------
\* processPdfFile: the metadata of a file and its new name

\* What extractPdfMetadata returns: ok is FALSE for the null of the catch
\* branch; an absent field (undefined or null) is Null or NullYear.
pdfFailure == [ok |-> FALSE, title |-> Null, author |-> Null, year |-> NullYear]

pdfEmpty == [ok |-> TRUE, title |-> Null, author |-> Null, year |-> NullYear]

Extraction == [ok : BOOLEAN, title : String, author : String, year : Int]

\* The merge of the filename metadata with the extracted metadata.
resolveMetadata(metadata, pdfMetadata) ==
  IF ~pdfMetadata.ok THEN metadata
  ELSE [title |-> OrElse(metadata.title, pdfMetadata.title),
        author |-> OrElse(pdfMetadata.author, metadata.author),
        year |-> IF YearTruthy(metadata.year) THEN metadata.year
                 ELSE pdfMetadata.year]

\* newFilename for a resolved record; Null when processPdfFile returns
\* before it computes one, or computes null.
newFilenameOf[metadata \in Metadata] ==
  IF ~Truthy(metadata.title) THEN Null ELSE generateNewFilename[metadata]

\* processPdfFile from the filename metadata on: extraction is asked only
\* when the filename gives no author.
resolved[filenameMetadata \in Metadata, pdfMetadata \in Extraction] ==
  IF ~Truthy(filenameMetadata.author)
  THEN resolveMetadata(filenameMetadata, pdfMetadata)
  ELSE filenameMetadata

\* The whole of processPdfFile up to its decision to rename: the new name of
\* a file given what extraction returns for it.
pipeline[filename \in String, pdfMetadata \in Extraction] ==
  newFilenameOf[resolved[parseFilename[filename], pdfMetadata]]

\* --------------------------------------------------------------------
\* The batch: processFiles over the files of one directory

\* The limit of the limiter, pLimit(MAX_CONCURRENT): the environment's
\* MAX_CONCURRENT, or twice the number of CPUs; 2 is its value on one CPU.
MAX_CONCURRENT == 2

\* How many files the directory holds.
NumFiles == 3

\* The names a batch draws its files from: those of the directory that
\* getAllPdfFiles keeps. Two of them resolve to the same new name,
\* "Dune [1965].pdf", which is a third; with an author from the metadata
\* all three resolve to one name again.
BatchNames ==
  { n \in { Str("Dune_1965.pdf"), Str("Dune.1965.pdf"), Str("Dune [1965].pdf"),
            Str("random_document.pdf"), Str("notes.txt") } : IsPdfName[n] }

\* What extraction returns in a batch: a failure, a record without fields,
\* a record with an author.
BatchExtractions ==
  { pdfFailure, pdfEmpty,
    [ok |-> TRUE, title |-> Null, author |-> Str("Frank Herbert"), year |-> 1965] }

VARIABLES
  pdfFiles,       \* the array getAllPdfFiles returns: names in one directory
  dir,            \* the directory: name |-> the file (1..n) whose content it holds
  queue,          \* the limiter's queue of files not yet started
  activeCount,    \* the limiter's count of running tasks
  pc,             \* where each file's processWithProgress is
  metadata,       \* processPdfFile's metadata
  extraction,     \* what extractPdfMetadata did: "none", "failed", "returned"
  newFilename,    \* processPdfFile's newFilename (Null until computed)
  outcome,        \* "pending", "unchanged", "skipped", "renamed", "failed"
  ticks,          \* how often progressBar.tick was called for each file
  completed,      \* main has logged "PDF organization completed"
  shadowDir,      \* the directory of the same run with every rename succeeding
  shadowOutcome,  \* the outcomes of that run
  call            \* a single call of one of the functions (SpecFn)

vars == << pdfFiles, dir, queue, activeCount, pc, metadata, extraction,
           newFilename, outcome, ticks, completed, shadowDir, shadowOutcome,
           call >>

Files == 1..Len(pdfFiles)

noMetadata == [title |-> Null, author |-> Null, year |-> NullYear]

noCall == [fn |-> "none"]

\* The state when processFiles has handed every file to the limiter.
BatchOf(files) ==
  /\ pdfFiles = files
  /\ dir = [n \in {files[f] : f \in 1..Len(files)} |->
              CHOOSE f \in 1..Len(files) : files[f] = n]
  /\ queue = [f \in 1..Len(files) |-> f]
  /\ activeCount = 0
  /\ pc = [f \in 1..Len(files) |-> "queued"]
  /\ metadata = [f \in 1..Len(files) |-> noMetadata]
  /\ extraction = [f \in 1..Len(files) |-> "none"]
  /\ newFilename = [f \in 1..Len(files) |-> Null]
  /\ outcome = [f \in 1..Len(files) |-> "pending"]
  /\ ticks = [f \in 1..Len(files) |-> 0]
  /\ completed = FALSE
  /\ shadowDir = dir
  /\ shadowOutcome = outcome

\* A directory lists each name once; the listing order is arbitrary.
Init ==
  /\ \E files \in [1..NumFiles -> BatchNames] :
        /\ \A f, g \in 1..NumFiles : files[f] = files[g] => f = g
        /\ BatchOf(files)
  /\ call = noCall

\* fs.rename(src, dst) on a directory: dst now holds what src held, and
\* whatever dst held is gone.
renameIn(d, src, dst) ==
  [n \in (DOMAIN d \ {src}) \cup {dst} |-> IF n = dst THEN d[src] ELSE d[n]]

\* A variant of canStart without the limit.
canStartUnlimited(f) ==
  /\ queue # << >>
  /\ Head(queue) = f

\* The limiter starts the head of its queue when fewer than the limit run.
canStart(f) ==
  /\ queue # << >>
  /\ Head(queue) = f
  /\ activeCount < MAX_CONCURRENT

\* processPdfFile from the resolved metadata to its next await: it returns
\* (no title, no new name, or the name it has) or goes on to pathExists.
proceed(f, md) ==
  \E name \in {newFilenameOf[md]} :
     \E returns \in {name = Null \/ name = pdfFiles[f]} :
        /\ metadata' = [metadata EXCEPT ![f] = md]
        /\ newFilename' = [newFilename EXCEPT ![f] = name]
        /\ pc' = [pc EXCEPT ![f] = IF returns THEN "tick" ELSE "pathExists"]
        /\ outcome' = [outcome EXCEPT ![f] = IF returns THEN "unchanged" ELSE @]
        /\ shadowOutcome' =
             [shadowOutcome EXCEPT ![f] = IF returns THEN "unchanged" ELSE @]

\* limit(() => processWithProgress(filePath)) starts: processPdfFile parses
\* the name and runs to its first await.
Start(f) ==
  /\ pc[f] = "queued"
  /\ canStart(f)
  /\ queue' = Tail(queue)
  /\ activeCount' = activeCount + 1
  /\ \E filenameMetadata \in {parseFilename[pdfFiles[f]]} :
        IF ~Truthy(filenameMetadata.author)
        THEN /\ pc' = [pc EXCEPT ![f] = "extract"]
             /\ metadata' = [metadata EXCEPT ![f] = filenameMetadata]
             /\ UNCHANGED << newFilename, outcome, shadowOutcome >>
        ELSE proceed(f, filenameMetadata)
  /\ UNCHANGED << pdfFiles, dir, extraction, ticks, completed, shadowDir, call >>

\* await extractPdfMetadata(filePath) settles, with a record or with null.
Extract(f) ==
  /\ pc[f] = "extract"
  /\ \E pdfMetadata \in BatchExtractions :
        /\ extraction' = [extraction EXCEPT
                            ![f] = IF pdfMetadata.ok THEN "returned" ELSE "failed"]
        /\ \E md \in {resolveMetadata(metadata[f], pdfMetadata)} : proceed(f, md)
  /\ UNCHANGED << pdfFiles, dir, queue, activeCount, ticks, completed,
                  shadowDir, call >>

\* await fs.pathExists(newPath) settles: the file is skipped when the path
\* exists and is not its own. In the shadow run the answer is read from the
\* shadow directory; a file the run skips and the shadow run renames is
\* renamed there at once.
PathExists(f) ==
  /\ pc[f] = "pathExists"
  /\ LET skip == newFilename[f] \in DOMAIN dir /\ newFilename[f] # pdfFiles[f]
         shadowSkip == /\ newFilename[f] \in DOMAIN shadowDir
                       /\ newFilename[f] # pdfFiles[f]
     IN  /\ pc' = [pc EXCEPT ![f] = IF skip THEN "tick" ELSE "rename"]
         /\ outcome' = [outcome EXCEPT ![f] = IF skip THEN "skipped" ELSE @]
         /\ shadowOutcome' = [shadowOutcome EXCEPT
                                ![f] = IF shadowSkip THEN "skipped"
                                       ELSE IF skip THEN "renamed" ELSE @]
         /\ shadowDir' = IF ~shadowSkip /\ skip
                         THEN renameIn(shadowDir, pdfFiles[f], newFilename[f])
                         ELSE shadowDir
  /\ UNCHANGED << pdfFiles, dir, queue, activeCount, metadata, extraction,
                  newFilename, ticks, completed, call >>

\* The rename of the shadow run, which never fails.
shadowRename(f) ==
  IF shadowOutcome[f] = "pending"
  THEN /\ shadowDir' = renameIn(shadowDir, pdfFiles[f], newFilename[f])
       /\ shadowOutcome' = [shadowOutcome EXCEPT ![f] = "renamed"]
  ELSE UNCHANGED << shadowDir, shadowOutcome >>

\* await fs.rename(filePath, newPath) succeeds.
RenameOk(f) ==
  /\ pc[f] = "rename"
  /\ pdfFiles[f] \in DOMAIN dir
  /\ dir' = renameIn(dir, pdfFiles[f], newFilename[f])
  /\ outcome' = [outcome EXCEPT ![f] = "renamed"]
  /\ pc' = [pc EXCEPT ![f] = "tick"]
  /\ shadowRename(f)
  /\ UNCHANGED << pdfFiles, queue, activeCount, metadata, extraction,
                  newFilename, ticks, completed, call >>

\* A variant of RenameFail in which the failed rename removes the source.
RenameFailLosesSource(f) ==
  /\ pc[f] = "rename"
  /\ outcome' = [outcome EXCEPT ![f] = "failed"]
  /\ pc' = [pc EXCEPT ![f] = "tick"]
  /\ dir' = [n \in DOMAIN dir \ {pdfFiles[f]} |-> dir[n]]
  /\ shadowRename(f)
  /\ UNCHANGED << pdfFiles, queue, activeCount, metadata, extraction,
                  newFilename, ticks, completed, call >>

\* await fs.rename(filePath, newPath) rejects: the catch of processPdfFile
\* logs the error.
RenameFail(f) ==
  /\ pc[f] = "rename"
  /\ outcome' = [outcome EXCEPT ![f] = "failed"]
  /\ pc' = [pc EXCEPT ![f] = "tick"]
  /\ shadowRename(f)
  /\ UNCHANGED << pdfFiles, dir, queue, activeCount, metadata, extraction,
                  newFilename, ticks, completed, call >>

\* A variant of Tick that reports no progress for a file that failed.
TickUnlessFailed(f) ==
  /\ pc[f] = "tick"
  /\ ticks' = [ticks EXCEPT ![f] = IF outcome[f] = "failed" THEN @ ELSE @ + 1]
  /\ pc' = [pc EXCEPT ![f] = "done"]
  /\ activeCount' = activeCount - 1
  /\ UNCHANGED << pdfFiles, dir, queue, metadata, extraction, newFilename,
                  outcome, completed, shadowDir, shadowOutcome, call >>

\* processPdfFile has settled: processWithProgress ticks the progress bar
\* and settles, and the limiter takes the task off its count.
Tick(f) ==
  /\ pc[f] = "tick"
  /\ ticks' = [ticks EXCEPT ![f] = @ + 1]
  /\ pc' = [pc EXCEPT ![f] = "done"]
  /\ activeCount' = activeCount - 1
  /\ UNCHANGED << pdfFiles, dir, queue, metadata, extraction, newFilename,
                  outcome, completed, shadowDir, shadowOutcome, call >>

\* Promise.all settles and main logs the completion.
Complete ==
  /\ ~completed
  /\ \A f \in Files : pc[f] = "done"
  /\ completed' = TRUE
  /\ UNCHANGED << pdfFiles, dir, queue, activeCount, pc, metadata, extraction,
                  newFilename, outcome, ticks, shadowDir, shadowOutcome, call >>

Next ==
  \/ \E f \in Files : Start(f)
  \/ \E f \in Files : Extract(f)
  \/ \E f \in Files : PathExists(f)
  \/ \E f \in Files : RenameOk(f)
  \/ \E f \in Files : RenameFail(f)
  \/ \E f \in Files : Tick(f)
  \/ Complete

Spec == Init /\ [][Next]_vars

\* Every settled promise's continuation runs: the event loop is fair.
FairSpec == Spec /\ WF_vars(Next)


\* --------------------------------------------------------------------
\* Single calls of the functions: a behaviour makes one call, and call
\* records the function, its argument and what it returned.

\* "A. B. Ivanov" in Cyrillic: U+0410 . U+0411 . U+0418 U+0432 U+0430 U+043D
\* U+043E U+0432
CyrillicName ==
  << 1040, 46, 32, 1041, 46, 32, 1048, 1074, 1072, 1085, 1086, 1074 >>

AuthorInputs ==
  { Str("J.K. Rowling"), Str("Smith, J."), CyrillicName, Str("John Smith"),
    Str("John R Smith"), Str("Frank Herbert"), Str("Martin R"), Str("Poe A"),
    Str("J. Smith"), Str("jross1"), Str("aaaa"), << >>, Null }

\* The authors, titles and years the names in canonical form are built of.
ValidAuthors == {a \in AuthorInputs : isValidAuthorName[a]}

CanonicalTitles == { Str("Title"), Str("Dune"), Str("Clean Code") }

CanonicalYears == { 1965, 2020 }

\* "T - A [Y].pdf"
canonicalName(T, A, Y) ==
  T \o << SPACE, DASH, SPACE >> \o A \o << SPACE, 91 >> \o Digits[Y]
    \o << 93 >> \o PDF_EXT

CanonicalNames ==
  {canonicalName(T, A, Y) : T \in CanonicalTitles, A \in ValidAuthors,
                            Y \in CanonicalYears}

McGrawHillExample ==
  Str("McGraw-Hill.Programming_Basics_-_John_R_Smith_(2019).pdf")

\* Names whose two parts are, in turn: the first alone like an author, the
\* second alone, both (first longer, first shorter, equal), neither (first
\* shorter, first longer, equal); then names of the other patterns.
TwoPartNames ==
  { Str("Poe A - Title.pdf"), Str("Title - Poe A.pdf"),
    Str("John R Smith - Poe A.pdf"), Str("Poe A - John R Smith.pdf"),
    Str("Poe A - Doe B.pdf"),
    Str("Dune - John Smith.pdf"), Str("John Smith - Dune.pdf"),
    Str("Dune - Emma.pdf"),
    Str("Dune by Frank Herbert.pdf"), Str("Dune (Herbert F).pdf") }

FilenameInputs ==
  CanonicalNames \cup TwoPartNames \cup BatchNames
    \cup { McGrawHillExample, Str("Clean Code - Martin R [2008].pdf") }

GenerateTitles ==
  { Str("Dune"), Str("a:bbbb"), Str("What?"), Str("Dune - - II"),
    Str("jross notes"), Str("-Dune-"), << >>, Null }

MetadataInputs ==
  [title : GenerateTitles, author : AuthorInputs, year : {NullYear, 1965}]

\* No batch runs while a single function is called.
InitFn ==
  /\ BatchOf(<< >>)
  /\ call = noCall

batchVars == << pdfFiles, dir, queue, activeCount, pc, metadata, extraction,
                newFilename, outcome, ticks, completed, shadowDir,
                shadowOutcome >>

CallIsValidAuthorName ==
  /\ call = noCall
  /\ \E text \in AuthorInputs :
        call' = [fn |-> "isValidAuthorName", arg |-> text,
                 result |-> isValidAuthorName[text]]
  /\ UNCHANGED batchVars

CallIsLikelyAuthor ==
  /\ call = noCall
  /\ \E text \in AuthorInputs :
        call' = [fn |-> "isLikelyAuthor", arg |-> text,
                 result |-> isLikelyAuthor[text]]
  /\ UNCHANGED batchVars

CallFormatAuthorName ==
  /\ call = noCall
  /\ \E author \in AuthorInputs :
        call' = [fn |-> "formatAuthorName", arg |-> author,
                 result |-> formatAuthorName[author]]
  /\ UNCHANGED batchVars

CallParseFilename ==
  /\ call = noCall
  /\ \E filename \in FilenameInputs :
        call' = [fn |-> "parseFilename", arg |-> filename,
                 result |-> parseFilename[filename]]
  /\ UNCHANGED batchVars

CallGenerateNewFilename ==
  /\ call = noCall
  /\ \E md \in MetadataInputs :
        call' = [fn |-> "generateNewFilename", arg |-> md,
                 result |-> generateNewFilename[md]]
  /\ UNCHANGED batchVars

\* processPdfFile up to its decision to rename, for a file name and what
\* extraction returns if it is asked.
CallPipeline ==
  /\ call = noCall
  /\ \E filename \in FilenameInputs, pdfMetadata \in BatchExtractions :
        call' = [fn |-> "pipeline", arg |-> filename,
                 pdfMetadata |-> pdfMetadata,
                 result |-> pipeline[filename, pdfMetadata]]
  /\ UNCHANGED batchVars

NextFn ==
  \/ CallIsValidAuthorName
  \/ CallIsLikelyAuthor
  \/ CallFormatAuthorName
  \/ CallParseFilename
  \/ CallGenerateNewFilename
  \/ CallPipeline

SpecFn == InitFn /\ [][NextFn]_vars

\* --------------------------------------------------------------------
\* The claims

\* The files whose processPdfFile has started and not yet completed.
Running == {f \in Files : pc[f] \notin {"queued", "done"}}

Done == {f \in Files : pc[f] = "done"}

\* The file's content is in the directory, under whatever name.
ContentKept(f) == \E n \in DOMAIN dir : dir[n] = f

\* The file is in the directory under the name it was discovered with.
UnderOriginalName(f) == pdfFiles[f] \in DOMAIN dir /\ dir[pdfFiles[f]] = f

\* C1 (as claimed): under every interleaving the limiter admits, no rename
\* overwrites another file: every file's content stays in the directory,
\* and of two files that resolve to the same new name at most one is
\* renamed.
C1_CollisionSafety ==
  /\ \A f \in Files : ContentKept(f)
  /\ \A f, g \in Files :
        (f # g /\ Truthy(newFilename[f]) /\ newFilename[f] = newFilename[g])
          => ~(outcome[f] = "renamed" /\ outcome[g] = "renamed")

\* C2 (as claimed): the pipeline maps every name "T - A [Y].pdf", with A a
\* valid author name and Y a year of four digits, to itself.
C2_Idempotence ==
  (call.fn = "pipeline" /\ call.arg \in CanonicalNames)
    => call.result = call.arg

\* C3 (as claimed): the McGraw-Hill example is parsed to the title
\* "Programming Basics", the author "John R Smith" and the year 2019, and
\* its new name is "Programming Basics - John R. Smith [2019].pdf".
C3_EndToEndExample ==
  /\ (call.fn = "parseFilename" /\ call.arg = McGrawHillExample)
       => call.result = [title |-> Str("Programming Basics"),
                         author |-> Str("John R Smith"),
                         year |-> 2019]
  /\ (call.fn = "pipeline" /\ call.arg = McGrawHillExample)
       => call.result = Str("Programming Basics - John R. Smith [2019].pdf")

\* C4 (as claimed): random_document.pdf, when extraction has settled and
\* has given no author, title or year, is never renamed and no rename of
\* it is attempted: it stays under its name.
C4_NoInformationNoRename ==
  \A f \in Files :
     (/\ pdfFiles[f] = Str("random_document.pdf")
      /\ extraction[f] # "none"
      /\ ~Truthy(metadata[f].author))
       => /\ pc[f] \notin {"pathExists", "rename"}
          /\ outcome[f] \in {"pending", "unchanged"}
          /\ UnderOriginalName(f)

\* The three names C5 is about.
DottedInitialNames == { Str("J.K. Rowling"), Str("Smith, J."), CyrillicName }

\* C5 (as claimed): isValidAuthorName returns true for "J.K. Rowling",
\* "Smith, J." and the Cyrillic "A. B. Ivanov".
C5_AcceptsDottedInitials ==
  (call.fn = "isValidAuthorName" /\ call.arg \in DottedInitialNames)
    => call.result = TRUE

\* A step in which the rename of f fails.
RenameFails(f) == outcome[f] # "failed" /\ outcome'[f] = "failed"

\* A step in which the extraction of f fails.
ExtractionFails(f) == extraction[f] = "none" /\ extraction'[f] = "failed"

\* A step leaves every file but f, and the limiter, as they are.
OthersUntouched(f) ==
  /\ queue' = queue
  /\ activeCount' = activeCount
  /\ \A g \in Files \ {f} :
        /\ pc'[g] = pc[g]
        /\ outcome'[g] = outcome[g]
        /\ metadata'[g] = metadata[g]
        /\ newFilename'[g] = newFilename[g]
        /\ extraction'[g] = extraction[g]
        /\ ticks'[g] = ticks[g]

\* C6 (amended): a failing step touches nothing but its own file. A rename
\* that fails leaves the directory as it is, with the file under its
\* original name for good, and the file goes on to its progress report; an
\* extraction that fails leaves the directory as it is and the file goes on
\* with the metadata of its filename alone.
C6_FailureTouchesOnlyItsFile ==
  /\ [](\A f \in Files : outcome[f] = "failed" => UnderOriginalName(f))
  /\ [][\A f \in Files :
          /\ RenameFails(f) =>
               /\ dir' = dir
               /\ UnderOriginalName(f)
               /\ pc'[f] = "tick"
               /\ OthersUntouched(f)
          /\ ExtractionFails(f) =>
               /\ dir' = dir
               /\ metadata'[f] = parseFilename[pdfFiles[f]]
               /\ pc'[f] \in {"pathExists", "tick"}
               /\ OthersUntouched(f)]_vars

\* C6 (witness): a batch has completed in which one file's rename failed,
\* another file's extraction failed, and a third file was renamed.
C6_Witness ==
  /\ completed
  /\ \E f, g, h \in Files :
        /\ outcome[f] = "failed"
        /\ g # f /\ extraction[g] = "failed"
        /\ h # f /\ outcome[h] = "renamed"

\* C6 (as claimed): when the batch has completed, every file whose own
\* rename did not fail has the outcome it has in the run in which no rename
\* fails.
C6_SameOutcomeAsWithoutFailure ==
  completed =>
    \A g \in Files : outcome[g] # "failed" => outcome[g] = shadowOutcome[g]

\* C7: never more than MAX_CONCURRENT files are being processed, and a file
\* starts only when fewer than MAX_CONCURRENT are: the first MAX_CONCURRENT
\* files start at once, each later one only when files before it have
\* completed.
C7_BoundedConcurrency ==
  /\ [](Cardinality(Running) <= MAX_CONCURRENT /\ activeCount = Cardinality(Running))
  /\ [][\A f \in Files :
          (pc[f] = "queued" /\ pc'[f] # "queued")
            => /\ Cardinality(Running) < MAX_CONCURRENT
               /\ Cardinality(Done) >= f - MAX_CONCURRENT
               /\ \A g \in 1..(f - 1) : pc[g] # "queued"]_vars

\* C7 (witness): a file that had to wait in the queue has started after
\* another completed, and MAX_CONCURRENT files are being processed again.
C7_Witness ==
  /\ Cardinality(Running) = MAX_CONCURRENT
  /\ Done # {}
  /\ \E f \in Running : f > MAX_CONCURRENT

\* C8: with a fair scheduler the batch completes; progress is reported
\* exactly once for a file, when its processing completes, whatever its
\* outcome; and completion is reported only when every file has completed.
C8_CompletionAndReporting ==
  /\ <>completed
  /\ [](\A f \in Files : ticks[f] = IF pc[f] = "done" THEN 1 ELSE 0)
  /\ [](completed => \A f \in Files : pc[f] = "done" /\ ticks[f] = 1)

\* C8 (witness): a batch has completed with one file renamed, one skipped
\* and one failed, each reported once.
C8_Witness ==
  /\ completed
  /\ \A f \in Files : ticks[f] = 1
  /\ \E f, g, h \in Files :
        /\ outcome[f] = "renamed"
        /\ outcome[g] = "skipped"
        /\ outcome[h] = "failed"

\* Whether parseFilename makes the first part of a two-part match the
\* author.
firstIsAuthor(P1, P2) ==
  \/ isLikelyAuthor[P1]
  \/ ~isLikelyAuthor[P2] /\ Len(P1) <= Len(P2)

\* C9 (amended): in a two-part match the first part is the author whenever
\* it satisfies isLikelyAuthor, also when the second does too and whichever
\* is longer; else the second part if it satisfies isLikelyAuthor; if
\* neither does, the shorter part, and the first on equal lengths. The
\* other part is the title.
C9_FirstLikelyPartIsAuthor ==
  (call.fn = "parseFilename" /\ twoPartsOf[call.arg].matched)
    => \E two \in {twoPartsOf[call.arg]} :
          IF firstIsAuthor(two.first, two.second)
          THEN call.result.author = two.first /\ call.result.title = two.second
          ELSE call.result.author = two.second /\ call.result.title = two.first

\* C9 (witness): parseFilename was called on a name whose two parts both
\* satisfy isLikelyAuthor, the first being the longer, and made the first
\* the author.
C9_Witness ==
  /\ call.fn = "parseFilename"
  /\ twoPartsOf[call.arg].matched
  /\ \E two \in {twoPartsOf[call.arg]} :
        /\ isLikelyAuthor[two.first]
        /\ isLikelyAuthor[two.second]
        /\ Len(two.first) > Len(two.second)
        /\ call.result.author = two.first
        /\ call.result.title = two.second

\* C9 (as claimed): if exactly one part satisfies isLikelyAuthor it is the
\* author; if both or neither do, the author is the shorter part and the
\* title the longer.
C9_ShorterPartWhenBothOrNeither ==
  (call.fn = "parseFilename" /\ twoPartsOf[call.arg].matched)
    => \E two \in {twoPartsOf[call.arg]} :
          \E first \in {isLikelyAuthor[two.first]} :
             \E second \in {isLikelyAuthor[two.second]} :
                /\ {call.result.author, call.result.title}
                     = {two.first, two.second}
                /\ (first /\ ~second) => call.result.author = two.first
                /\ (second /\ ~first) => call.result.author = two.second
                /\ (first = second)
                     => Len(call.result.author) <= Len(call.result.title)

\* C10 (as claimed): for a record with a non-empty title, the name
\* generateNewFilename returns holds none of < > : " / \ | ? * .
C10_FilesystemSafeOutput ==
  (/\ call.fn = "generateNewFilename"
   /\ Truthy(call.arg.title)
   /\ call.result # Null)
    => \A i \in 1..Len(call.result) : ~IsInvalidChar(call.result[i])

=============================================================================
